---- MODULE Spec2Model ----
(***************************************************************************)
(* Model of the teleoperation bridge of control_steamdeck (src/main.py,    *)
(* src/lora.py, src/joystick.py, src/camera_start.py).                     *)
(*                                                                         *)
(*  - SpecHub / FairSpecHub: the FrameHub (latest_jpeg + asyncio.Queue of  *)
(*    size 1), the camera producer and the per-client streaming loops.     *)
(*  - Spec: the control side on a discrete clock: the LoraLink heartbeat   *)
(*    timestamp, the gamepad button/axis state, mode_manager's two         *)
(*    hold-to-toggle combos and sender_task.                               *)
(*  - SpecMode / SpecHold: mode_manager with single button events.         *)
(*  - SpecLine: sender_task under configured speed scales.                 *)
(*  - SpecQuality / SpecRate: the link-health and transmit-rate helpers of *)
(*    the telemetry snapshot (main.py and telemetry_ws.py).                *)
(*  - SpecWs: the WebSocket router, the telemetry handler and broadcaster. *)
(*  - SpecThrottle: one throttled frame-route client.                      *)
(*                                                                         *)
(* Frames are identified by their publish index 1, 2, ...; 0 stands for    *)
(* Python's None.  Time is counted in integer units of the model clock.    *)
(***************************************************************************)
EXTENDS Integers, Sequences, FiniteSets, TLC

\* ------------------------------------------------------------------ bounds
MaxFrames    == 3      \* frames the camera delivers before it stalls
QMaxSize     == 1      \* asyncio.Queue(maxsize=1)

Consumers == {"c1", "c2"}                 \* frame-route clients
NoFrame   == 0         \* None

MaxTime      == 10     \* Spec: the clock stops here
MaxTimeMode  == 14     \* SpecMode: the clock stops here
MaxTimeHold  == 8      \* SpecHold: the clock stops here
PollPeriod   == 2      \* mode_manager: asyncio.sleep(0.05), in clock units
HOLD         == 4      \* cfg.modes.combo_hold_sec, in clock units

SendPeriod   == 3      \* sender_task: 1 / cfg.tx.max_rate_hz, in clock units
HbTimeout    == 4      \* cfg.tx.hb_timeout_sec, in clock units
TxMaxLen     == 3      \* deque(maxlen=512), scaled down
SpeedDefaultScale == 700    \* cfg.modes.speed_default_scale = 0.70, in thousandths
SpeedPlusScale    == 1000   \* cfg.modes.speed_plus_scale = 1.00, in thousandths

None    == -1          \* None for a timestamp
AxisValues == {-1000, 0}                  \* normalized axis readings, in thousandths
Buttons == {"TL", "TR", "TL2", "TR2"}     \* GamepadReader.WATCH_BTNS
Combos  == {"sleep", "speed"}

MaxTimeQuality == 17   \* SpecQuality: the clock stops here
MaxTimeRate  == 16     \* SpecRate: the clock stops here
TxWindowSec  == 3      \* tx_rate_hz: the 3.0 s window, in seconds

MaxTicks     == 3      \* SpecWs: broadcast ticks before the broadcaster rests
MaxCamSends  == 1      \* SpecWs: frames a camera handler sends in its loop
Conns    == {"k1", "k2"}                  \* WebSocket connections the server accepts
Paths    == {"/telemetry", "/rgb_camera", "/stream"}          \* requested paths
Programs == {"main", "telemetry_ws", "camera_start"}          \* the three servers
InvalidRoute == 1008   \* close code of a rejected connection

MaxPerf      == 8      \* SpecThrottle: the clock stops here
FramePeriod  == 3      \* 1 / target_fps, in clock units
MaxTimeRead  == 3      \* SpecRead: the clock stops here
MaxReads     == 3      \* SpecRead: reads of the serial port
MaxMisses    == 2      \* SpecRead: camera reads that give no frame
MaxTimeSnap  == 10     \* SpecSnap: the clock stops here
MaxTimeLine  == 6      \* SpecLine: the clock stops here
LineAxisValues == {-1000, 1000}           \* SpecLine: full deflections, in thousandths
ScalePairs == {<<700, 1000>>, <<1000, 1500>>}   \* configured <<default, plus>> scales, in thousandths
Timeouts == {4, 5, 15}                    \* values of cfg.tx.hb_timeout_sec, in seconds

VARIABLES
    \* ---- FrameHub and its users
    latest_jpeg,   \* FrameHub.latest_jpeg (NoFrame before the first publish)
    q,             \* FrameHub.q: the items of the asyncio.Queue
    getters,       \* asyncio.Queue._getters: consumers suspended in q.get(), FIFO
    woken,         \* consumers whose getter future was resolved and that have not resumed yet
    pcProd,        \* camera_producer: "run", or "put_wait" when suspended in q.put
    published,     \* number of publish calls so far (the newest frame's index)
    lastDiscard,   \* whether the last publish discarded a frame that was still pending
    pc,            \* per consumer: "closed", "call", "wait", "ret"
    tmo,           \* per consumer: TRUE when next is called with a finite timeout
    issued,        \* per consumer: value of published when its current next was called
    ret,           \* per consumer: what its last next returned
    via,           \* per consumer: "queue" or "timeout" (how its last next returned), "none"
    lastSent,      \* per consumer: the last frame handed to ws.send
    \* ---- clock and gamepad
    now,           \* time.time()
    buttons,       \* GamepadReader.buttons
    \* ---- mode_manager
    nextPoll,      \* when mode_manager's asyncio.sleep(0.05) returns
    sleep,         \* state["sleep"]
    speed_plus,    \* state["speed_plus"]
    combo_t0,      \* state["sleep_combo_t0"], state["speed_combo_t0"]
    combo_fired,   \* state["sleep_combo_fired"], state["speed_combo_fired"]
    obsFlips,      \* per combo: flips of its flag in the hold the polls are observing
    heldSince,     \* per combo: since when both its buttons are down (None: not both)
    physFlips,     \* per combo: flips of its flag since heldSince
    longHold,      \* per combo (kept by SpecHold): whether both its buttons have ever been down for HOLD on end
    \* ---- LoraLink and sender_task
    v, w,          \* GamepadReader.v, GamepadReader.w (thousandths)
    last_hb,       \* LoraLink.last_hb
    hbRxAt,        \* when the reader last received a heartbeat token (None: never)
    nextSend,      \* when sender_task's asyncio.sleep(period_s) returns
    v_eff, w_eff,  \* state["v_eff"], state["w_eff"]
    nSent,         \* number of lines written to the serial link
    lastLine,      \* the last line written: <<v, w>>
    last_tx_time,  \* state["last_tx_time"]
    tx_times,      \* state["tx_times"]
    tickLog,       \* what the last sender tick did: "none", "sleep", "stale", "sent"
    \* ---- telemetry helpers
    hb_timeout_s,  \* the hb_timeout_s the telemetry helpers are called with
    lq,            \* the last lora_connected / link_quality evaluation
    rate,          \* the last tx_rate_hz evaluation
    \* ---- WebSocket server: router, telemetry handler and broadcaster
    prog,          \* which server runs: main.py, telemetry_ws.py or camera_start.py
    path,          \* per connection: the requested path ("none" before it connects)
    handler,       \* per connection: the handler the router started ("none" if none)
    hstate,        \* per connection: "new", "run", "ended" or "rejected"
    open,          \* per connection: whether a send to it succeeds
    close_code,    \* per connection: the code the server closed it with (0: not closed by the router)
    snaps,         \* per connection: telemetry snapshots sent to it
    frames,        \* per connection: camera frames sent to it
    firstSnap,     \* per connection: who sent its first snapshot: "none", "connect", "broadcast"
    telemetry_clients,  \* the telemetry client set
    bc,            \* telemetry_broadcaster: "sleep" or "gather"
    pending,       \* the send tasks of the running gather that have not finished
    tickStart,     \* list(telemetry_clients) of the current (or last) tick
    tickSent,      \* clients the current (or last) tick's snapshot was sent to
    tickFailed,    \* clients a send of the current (or last) tick failed for
    tickNo,        \* ticks begun
    \* ---- configuration
    speed_default_scale,  \* cfg.modes.speed_default_scale, in thousandths
    speed_plus_scale,     \* cfg.modes.speed_plus_scale, in thousandths
    \* ---- one throttled frame-route client
    perf,          \* time.perf_counter()
    spc,           \* the client's handler: "closed", "next" (in hub.next), "pace" (in the throttle sleep)
    last_send,     \* camera_client_sender's last_send
    wakeAt,        \* when the throttle sleep returns
    sentAt,        \* when the last frame was handed to ws.send (None: none yet)
    gap,           \* time between the last two sends to the client (None: fewer than two)
    \* ---- record of the hub's handoffs
    handed,        \* per frame: how many next calls returned it through the queue
    \* ---- hardware reads
    run,           \* LoraLink.run
    rxRaw,         \* the bytes the reader's last readline() returned
    nReads,        \* readline() calls of the reader so far
    misses,        \* cap.read() calls of camera_producer that gave no frame
    \* ---- one telemetry snapshot
    has_tx,        \* whether the state dict holds the key "tx_times"
    snapPc,        \* "idle", or "mid": lora_connected is evaluated, link_quality not yet
    snap           \* the fields of the snapshot being built, or of the last one built

hubVars == <<latest_jpeg, q, getters, woken, pcProd, published, lastDiscard,
             pc, tmo, issued, ret, via, lastSent>>

padVars  == <<now, buttons>>
modeVars == <<nextPoll, sleep, speed_plus, combo_t0, combo_fired,
              obsFlips, heldSince, physFlips, longHold>>

axisVars == <<v, w>>
linkVars == <<last_hb, hbRxAt>>
txVars   == <<nextSend, v_eff, w_eff, nSent, lastLine, last_tx_time, tx_times, tickLog>>

fnVars   == <<hb_timeout_s, lq, rate>>

wsVars   == <<prog, path, handler, hstate, open, close_code, snaps, frames, firstSnap,
              telemetry_clients, bc, pending, tickStart, tickSent, tickFailed, tickNo>>

cfgVars    == <<speed_default_scale, speed_plus_scale>>
streamVars == <<perf, spc, last_send, wakeAt, sentAt, gap>>
handVars   == <<handed>>
readVars   == <<run, rxRaw, nReads, misses>>
snapVars   == <<has_tx, snapPc, snap>>
extVars    == <<cfgVars, streamVars, handVars, readVars, snapVars>>

vars == <<hubVars, padVars, modeVars, axisVars, linkVars, txVars, fnVars, wsVars, extVars>>

\* What the control-side actions (gamepad, mode_manager, link, sender) leave alone.
offCtlVars == <<hubVars, fnVars, wsVars, extVars>>

\* ------------------------------------------------------------- FrameHub
\* asyncio.Queue._wakeup_next(self._getters): resolve the first waiting getter.
WakeupNext(gs, wk) ==
    IF Len(gs) > 0 THEN <<Tail(gs), wk \cup {Head(gs)}>> ELSE <<gs, wk>>

\* asyncio.Queue.get, once the queue holds an item: get_nowait takes it out.
QueueGetPeek(qq) == qq
QueueGet(qq) == Tail(qq)

\* publish, lines 38-41: on QueueFull the pending frame is taken out
\* (get_nowait; QueueEmpty is ignored).
PublishDrainSkip(qq) == qq
PublishDrain(qq) == IF Len(qq) > 0 THEN Tail(qq) ELSE qq

\* publish, line 42: `await self.q.put(jpg)` suspends while the queue is full.
PublishSuspends(qq) == Len(qq) >= QMaxSize /\ Len(PublishDrain(qq)) >= QMaxSize

\* The queue after publish(jpg): put_nowait, or drain and put.
PublishQueueKeepOld(qq, jpg) ==
    IF Len(qq) < QMaxSize THEN Append(qq, jpg) ELSE qq
PublishQueueBacklog(qq, jpg) == Append(qq, jpg)
PublishQueue(qq, jpg) ==
    IF Len(qq) < QMaxSize THEN Append(qq, jpg)
    ELSE IF PublishSuspends(qq) THEN PublishDrain(qq)
    ELSE Append(PublishDrain(qq), jpg)

\* FrameHub.publish as called by one iteration of camera_producer that read a
\* frame: no await is reached between cap.read() and the end of publish
\* unless q.put suspends.
Publish ==
    /\ pcProd = "run"
    /\ published < MaxFrames
    /\ LET jpg == published + 1
           nq  == PublishQueue(q, jpg)
           put == Len(nq) > 0 /\ nq[Len(nq)] = jpg /\ ~PublishSuspends(q)
           wk  == IF put THEN WakeupNext(getters, woken) ELSE <<getters, woken>>
       IN /\ published' = jpg
          /\ latest_jpeg' = jpg
          /\ q' = nq
          /\ lastDiscard' = (Len(q) >= QMaxSize)
          /\ getters' = wk[1]
          /\ woken' = wk[2]
          /\ pcProd' = IF PublishSuspends(q) THEN "put_wait" ELSE "run"
    /\ UNCHANGED <<pc, tmo, issued, ret, via, lastSent>>

\* camera_client_sender up to its loop: the route handler starts, sends
\* latest_jpeg if there is one (ok = the send succeeds), then enters the loop.
\* t = TRUE: throttled (next gets a finite timeout); FALSE: timeout=None.
Connect(c, t, ok) ==
    /\ pc[c] = "closed"
    /\ IF latest_jpeg # NoFrame /\ ~ok
       THEN UNCHANGED <<pc, tmo, lastSent>>
       ELSE /\ pc' = [pc EXCEPT ![c] = "call"]
            /\ tmo' = [tmo EXCEPT ![c] = t]
            /\ lastSent' = [lastSent EXCEPT ![c] = latest_jpeg]
    /\ UNCHANGED <<issued, ret, via>>
    /\ UNCHANGED <<latest_jpeg, q, getters, woken, pcProd, published, lastDiscard>>

\* FrameHub.next, the call: q.get() returns at once when the queue holds an
\* item, else the caller is appended to the getters and suspends.
NextCall(c) ==
    /\ pc[c] = "call"
    /\ issued' = [issued EXCEPT ![c] = published]
    /\ IF Len(q) > 0
       THEN /\ ret' = [ret EXCEPT ![c] = Head(q)]
            /\ via' = [via EXCEPT ![c] = "queue"]
            /\ q' = QueueGet(q)
            /\ pc' = [pc EXCEPT ![c] = "ret"]
            /\ UNCHANGED getters
       ELSE /\ getters' = Append(getters, c)
            /\ pc' = [pc EXCEPT ![c] = "wait"]
            /\ UNCHANGED <<ret, via, q>>
    /\ UNCHANGED <<latest_jpeg, woken, pcProd, published, lastDiscard, tmo, lastSent>>

\* q.get() resumes after its getter future was resolved: `while self.empty()`
\* waits again when another consumer emptied the queue in the meantime.
NextResume(c) ==
    /\ pc[c] = "wait"
    /\ c \in woken
    /\ woken' = woken \ {c}
    /\ IF Len(q) > 0
       THEN /\ ret' = [ret EXCEPT ![c] = Head(q)]
            /\ via' = [via EXCEPT ![c] = "queue"]
            /\ q' = QueueGet(q)
            /\ pc' = [pc EXCEPT ![c] = "ret"]
            /\ UNCHANGED getters
       ELSE /\ getters' = Append(getters, c)
            /\ UNCHANGED <<ret, via, q, pc>>
    /\ UNCHANGED <<latest_jpeg, pcProd, published, lastDiscard, tmo, issued, lastSent>>

RemoveFrom(gs, c) == SelectSeq(gs, LAMBDA x : x # c)

\* next, lines 46-49: only a call with a timeout is wrapped in wait_for.
TimeoutArmedInverted(c) == ~tmo[c]
TimeoutArmed(c) == tmo[c]

\* What next returns when wait_for times out (line 51).
TimeoutValueNone(lj) == NoFrame
TimeoutValue(lj) == lj

\* FrameHub.next, the timeout: wait_for cancels q.get(), whose handler takes
\* the getter out of the queue's getters and, when the getter had already been
\* resolved and the queue holds an item, passes the wake-up on; then
\* asyncio.TimeoutError makes next return latest_jpeg.
NextTimeout(c) ==
    /\ pc[c] = "wait"
    /\ TimeoutArmed(c)
    /\ IF c \in woken
       THEN LET wk == IF Len(q) > 0 THEN WakeupNext(getters, woken \ {c})
                      ELSE <<getters, woken \ {c}>>
            IN getters' = wk[1] /\ woken' = wk[2]
       ELSE getters' = RemoveFrom(getters, c) /\ UNCHANGED woken
    /\ ret' = [ret EXCEPT ![c] = TimeoutValue(latest_jpeg)]
    /\ via' = [via EXCEPT ![c] = "timeout"]
    /\ pc' = [pc EXCEPT ![c] = "ret"]
    /\ UNCHANGED <<latest_jpeg, q, pcProd, published, lastDiscard, tmo, issued, lastSent>>

\* camera_client_sender after next returned: None -> sleep and call again;
\* a frame -> ws.send; a failed send ends the handler.
ClientSend(c, ok) ==
    /\ pc[c] = "ret"
    /\ IF ret[c] = NoFrame
       THEN /\ pc' = [pc EXCEPT ![c] = "call"]
            /\ UNCHANGED <<lastSent, tmo, issued, ret, via>>
       ELSE IF ok
       THEN /\ pc' = [pc EXCEPT ![c] = "call"]
            /\ lastSent' = [lastSent EXCEPT ![c] = ret[c]]
            /\ UNCHANGED <<tmo, issued, ret, via>>
       ELSE \* the handler ends: the client's record is a closed client's again
            /\ pc' = [pc EXCEPT ![c] = "closed"]
            /\ lastSent' = [lastSent EXCEPT ![c] = NoFrame]
            /\ tmo' = [tmo EXCEPT ![c] = FALSE]
            /\ issued' = [issued EXCEPT ![c] = 0]
            /\ ret' = [ret EXCEPT ![c] = NoFrame]
            /\ via' = [via EXCEPT ![c] = "none"]
    /\ UNCHANGED <<latest_jpeg, q, getters, woken, pcProd, published, lastDiscard>>

\* The record of a next call of consumer c that returns in this step: a return
\* through the queue counts as one handoff of the frame it returns.
RecordHandoff(c) ==
    handed' = IF pc[c] # "ret" /\ pc'[c] = "ret" /\ via'[c] = "queue"
              THEN [handed EXCEPT ![ret'[c]] = IF @ < 2 THEN @ + 1 ELSE 2]
              ELSE handed

InitHub ==
    /\ handed = [f \in 1..MaxFrames |-> 0]
    /\ latest_jpeg = NoFrame
    /\ q = <<>>
    /\ getters = <<>>
    /\ woken = {}
    /\ pcProd = "run"
    /\ published = 0
    /\ lastDiscard = FALSE
    /\ pc = [c \in Consumers |-> "closed"]
    /\ tmo = [c \in Consumers |-> FALSE]
    /\ issued = [c \in Consumers |-> 0]
    /\ ret = [c \in Consumers |-> NoFrame]
    /\ via = [c \in Consumers |-> "none"]
    /\ lastSent = [c \in Consumers |-> NoFrame]

\* ------------------------------------------------------------- gamepad
\* The two buttons each combo of mode_manager watches (lines 273-274, 287-288).
ComboButtonsShared(k) == IF k = "sleep" THEN {"TL", "TR"} ELSE {"TL", "TR2"}
ComboButtons(k) == IF k = "sleep" THEN {"TL", "TR"} ELSE {"TL2", "TR2"}

BothDown(btn, k) == \A b \in ComboButtons(k) : btn[b]

\* GamepadReader.read_loop, EV_KEY events of watched buttons: each stored state
\* changes when its event's state differs from it.  bs is the set of buttons
\* whose events arrive in one batch (read_loop handles the events of a batch
\* back to back, without returning to the event loop); a single event is a
\* batch of one.
ButtonEvent(bs, is_down) ==
    /\ \E b \in bs : buttons[b] # is_down
    /\ LET nb == [b \in Buttons |-> IF b \in bs THEN is_down ELSE buttons[b]]
           began(k) == ~BothDown(buttons, k) /\ BothDown(nb, k)
           ended(k) == BothDown(buttons, k) /\ ~BothDown(nb, k)
       IN /\ buttons' = nb
          /\ heldSince' = [k \in Combos |->
                 IF began(k) THEN now ELSE IF ended(k) THEN None ELSE heldSince[k]]
          /\ physFlips' = [k \in Combos |-> IF began(k) THEN 0 ELSE physFlips[k]]
    /\ UNCHANGED <<now, nextPoll, sleep, speed_plus, combo_t0, combo_fired, obsFlips, longHold>>
    /\ UNCHANGED <<axisVars, linkVars, txVars>>

\* ------------------------------------------------------------- mode_manager
\* Lines 279 and 293: the combo fires when it has not fired in this hold and
\* the timer has run for HOLD.
ComboMayFireRepeat(fired, elapsed) == elapsed >= HOLD
ComboMayFireEarly(fired, elapsed) == ~fired /\ elapsed >= HOLD - PollPeriod
ComboMayFire(fired, elapsed) == ~fired /\ elapsed >= HOLD

\* Lines 283-285 and 297-299: a poll that finds a button of the combo up
\* clears the timer and the fired flag.
ComboReleasedKeepFired(t0, fired, flag) == <<None, fired, flag>>
ComboReleased(t0, fired, flag) == <<None, FALSE, flag>>

\* One combo in one poll (lines 275-285, 289-299): <<t0, fired, flag>> after it.
ComboStep(down, t0, fired, flag) ==
    IF down
    THEN IF t0 = None THEN <<now, FALSE, flag>>
         ELSE IF ComboMayFire(fired, now - t0) THEN <<t0, TRUE, ~flag>>
         ELSE <<t0, fired, flag>>
    ELSE ComboReleased(t0, fired, flag)

\* One iteration of mode_manager's loop, after asyncio.sleep(0.05) returned.
ModePoll ==
    /\ now = nextPoll
    /\ nextPoll' = now + PollPeriod
    /\ LET flag(k) == IF k = "sleep" THEN sleep ELSE speed_plus
           st(k)   == ComboStep(BothDown(buttons, k), combo_t0[k], combo_fired[k], flag(k))
           flip(k) == IF st(k)[3] # flag(k) THEN 1 ELSE 0
       IN /\ combo_t0' = [k \in Combos |-> st(k)[1]]
          /\ combo_fired' = [k \in Combos |-> st(k)[2]]
          /\ sleep' = st("sleep")[3]
          /\ speed_plus' = st("speed")[3]
          /\ obsFlips' = [k \in Combos |->
                 IF ~BothDown(buttons, k) THEN 0
                 ELSE (IF combo_t0[k] = None THEN 0 ELSE obsFlips[k]) + flip(k)]
          /\ physFlips' = [k \in Combos |-> physFlips[k] + flip(k)]
    /\ UNCHANGED <<now, buttons, heldSince, longHold, axisVars, linkVars, txVars>>

\* ------------------------------------------------------------- LoraLink
\* _reader: a received line equal to hb_msg refreshes last_hb.
HbRecv ==
    /\ last_hb' = now
    /\ hbRxAt' = now
    /\ UNCHANGED <<padVars, modeVars, axisVars, txVars>>

\* GamepadReader.read_loop, an EV_ABS event of ABS_Y ("v") or of the turn axis.
AxisEvent(axis, n) ==
    /\ IF axis = "v" THEN v' = n /\ UNCHANGED w ELSE w' = n /\ UNCHANGED v
    /\ UNCHANGED <<padVars, modeVars, linkVars, txVars>>

\* ------------------------------------------------------------- sender_task
\* round(x / d) to the nearest integer, ties to even, as Python's round.
RoundDiv(x, d) ==
    LET fl == x \div d
        r  == x - fl * d
    IN IF 2 * r < d THEN fl
       ELSE IF 2 * r > d THEN fl + 1
       ELSE IF fl % 2 = 0 THEN fl ELSE fl + 1

\* Line 122-123: v_eff = round(v_raw * scale, 3), in thousandths.
EffectiveV(v_raw, plus) ==
    RoundDiv(v_raw * (IF plus THEN speed_plus_scale ELSE speed_default_scale), 1000)

\* Line 129: a tick is skipped while state["sleep"] is set.
SleepGateOff(s) == FALSE
SleepGate(s) == s

\* Line 131: a tick is skipped when the heartbeat is older than the timeout.
StaleGateOff(age) == FALSE
StaleGate(age) == age > HbTimeout

\* Lines 126-127: state["v_eff"] and state["w_eff"] are written before the
\* gates are tested, so on a withheld tick too.
StateWriteWhenSent(new, old, withheld) == IF withheld THEN old ELSE new
StateWrite(new, old, withheld) == new

\* deque(maxlen=...).append: a full deque drops its oldest entry.
DequeAppendNone(dq, t) == dq
DequeAppendUnbounded(dq, t) == Append(dq, t)
DequeAppend(dq, t) ==
    IF Len(dq) >= TxMaxLen THEN Append(Tail(dq), t) ELSE Append(dq, t)

\* One iteration of sender_task's loop, after asyncio.sleep(period_s) returned.
SenderTick ==
    /\ now = nextSend
    /\ nextSend' = now + SendPeriod
    /\ LET ve == EffectiveV(v, speed_plus)
           withheld == SleepGate(sleep) \/ StaleGate(now - last_hb)
       IN /\ v_eff' = StateWrite(ve, v_eff, withheld)
          /\ w_eff' = StateWrite(w, w_eff, withheld)
          /\ IF SleepGate(sleep)
             THEN /\ tickLog' = "sleep"
                  /\ UNCHANGED <<nSent, lastLine, last_tx_time, tx_times>>
             ELSE IF StaleGate(now - last_hb)
             THEN /\ tickLog' = "stale"
                  /\ UNCHANGED <<nSent, lastLine, last_tx_time, tx_times>>
             ELSE /\ tickLog' = "sent"
                  /\ nSent' = nSent + 1
                  /\ lastLine' = <<ve, w>>
                  /\ last_tx_time' = now
                  /\ tx_times' = DequeAppend(tx_times, now)
    /\ UNCHANGED <<padVars, modeVars, axisVars, linkVars>>

\* Whether combo k's current hold has lasted HOLD at time t.
HeldFor(k, t) == heldSince[k] # None /\ t - heldSince[k] >= HOLD

\* The clock of SpecHold advances as TickMode's does, and longHold records
\* whether a hold has lasted HOLD by then.
TickHold ==
    /\ now < MaxTimeHold
    /\ now < nextPoll
    /\ now' = now + 1
    /\ longHold' = [k \in Combos |-> longHold[k] \/ HeldFor(k, now + 1)]
    /\ UNCHANGED <<nextPoll, sleep, speed_plus, combo_t0, combo_fired,
                   obsFlips, heldSince, physFlips>>
    /\ UNCHANGED <<buttons, axisVars, linkVars, txVars>>

\* The clock advances; it does not pass the instant a sleeping task is due.
TickMode ==
    /\ now < MaxTimeMode
    /\ now < nextPoll
    /\ now' = now + 1
    /\ UNCHANGED <<buttons, modeVars, axisVars, linkVars, txVars>>

Tick ==
    /\ now < MaxTime
    /\ now < nextPoll
    /\ now < nextSend
    /\ now' = now + 1
    /\ UNCHANGED <<buttons, modeVars, axisVars, linkVars, txVars>>

InitCtlModes(start_sleep, start_plus) ==
    /\ now = 0
    /\ buttons = [b \in Buttons |-> FALSE]
    /\ nextPoll = PollPeriod
    /\ sleep \in start_sleep             \* cfg.modes.start_sleep
    /\ speed_plus \in start_plus
    /\ combo_t0 = [k \in Combos |-> None]
    /\ combo_fired = [k \in Combos |-> FALSE]
    /\ obsFlips = [k \in Combos |-> 0]
    /\ heldSince = [k \in Combos |-> None]
    /\ physFlips = [k \in Combos |-> 0]
    /\ longHold = [k \in Combos |-> FALSE]
    /\ v = 0 /\ w = 0
    /\ last_hb = 0                       \* LoraLink.__init__: time.time()
    /\ hbRxAt = None
    /\ nextSend = SendPeriod
    /\ v_eff = 0 /\ w_eff = 0
    /\ nSent = 0
    /\ lastLine = <<>>
    /\ last_tx_time = 0
    /\ tx_times = <<>>
    /\ tickLog = "none"

\* main.py's state dict starts with speed_plus False.
InitCtl(start_sleep) == InitCtlModes(start_sleep, {FALSE})

\* ------------------------------------------------------------- telemetry helpers
Max(a, b) == IF a >= b THEN a ELSE b
Min(a, b) == IF a <= b THEN a ELSE b

\* main.py lora_connected: age < hb_timeout_s.
lora_connected(age, T) == age < T

\* main.py link_quality for a heartbeat age and a timeout in whole seconds:
\* frac = (age - 0.2 T) / (0.8 T), in tenths (10 age - 2 T) / (8 T), and
\* 100 * (1 - frac) = 100 * (8 T - (10 age - 2 T)) / (8 T).  round is Python's:
\* to the nearest integer, a value exactly halfway to the even one (for the
\* Timeouts modelled the float expression is exact at the halfway values).
link_qualityNoKnee(age, T) ==
    IF age <= 0 THEN 100
    ELSE IF age >= T THEN 0
    ELSE Max(0, Min(100, RoundDiv(100 * (T - age), T)))
link_qualityRising(age, T) ==
    IF 5 * age <= T THEN 100
    ELSE IF age >= T THEN 0
    ELSE Max(0, Min(100, RoundDiv(100 * (10 * age - 2 * T), 8 * T)))
link_quality(age, T) ==
    IF 5 * age <= T THEN 100
    ELSE IF age >= T THEN 0
    ELSE Max(0, Min(100, RoundDiv(100 * (8 * T - (10 * age - 2 * T)), 8 * T)))

\* telemetry_ws.py TelemetryServer._lora_connected and ._link_quality.
TelemetryServer_lora_connected(age, T) == age < T
TelemetryServer_link_quality(age, T) ==
    IF 5 * age <= T THEN 100
    ELSE IF age >= T THEN 0
    ELSE Max(0, Min(100, RoundDiv(100 * (8 * T - (10 * age - 2 * T)), 8 * T)))

NoLq == [impl |-> "none", age |-> 0, timeout |-> 0, connected |-> FALSE, quality |-> 0]

\* A snapshot evaluates lora_connected and link_quality on the current clock
\* and LoraLink.last_hb, in main.py or in telemetry_ws.py.
LinkQualityCall(impl) ==
    LET age == now - last_hb
        T   == hb_timeout_s
    IN /\ lq' = [impl |-> impl, age |-> age, timeout |-> T,
                  connected |-> IF impl = "main" THEN lora_connected(age, T)
                                ELSE TelemetryServer_lora_connected(age, T),
                  quality |-> IF impl = "main" THEN link_quality(age, T)
                              ELSE TelemetryServer_link_quality(age, T)]
       /\ UNCHANGED <<hb_timeout_s, rate, hubVars, padVars, modeVars, axisVars, linkVars, txVars, wsVars, extVars>>

\* time.time() moves on, or, being the wall clock, is set back.
ClockAdvance ==
    /\ now < MaxTimeQuality
    /\ now' = now + 1
    /\ UNCHANGED <<buttons, hubVars, modeVars, axisVars, linkVars, txVars, fnVars, wsVars, extVars>>

ClockSetBack ==
    /\ now > 0
    /\ now' = now - 1
    /\ UNCHANGED <<buttons, hubVars, modeVars, axisVars, linkVars, txVars, fnVars, wsVars, extVars>>

\* The 3.0 s window of tx_rate_hz in clock units: two sender periods.
TxWindow == 2 * SendPeriod

\* tx_rate_hz, the loop condition: the oldest entry is older than the window.
TxExpiredNever(t_now, t) == FALSE
TxExpired(t_now, t) == t_now - t > TxWindow

\* tx_rate_hz, the while loop: popleft while the deque's head is expired.
RECURSIVE PruneOld(_, _)
PruneOld(dq, t_now) ==
    IF Len(dq) > 0 /\ TxExpired(t_now, Head(dq)) THEN PruneOld(Tail(dq), t_now) ELSE dq

\* round(len(dq) / 3.0, 2), in hundredths of a hertz.
RateOf(dq) == RoundDiv(100 * Len(dq), TxWindowSec)

NoRate == [impl |-> "none", at |-> 0, seen |-> <<>>, kept |-> <<>>, value |-> 0]

\* main.py tx_rate_hz: prune state["tx_times"] in place, return the rate.
tx_rate_hz ==
    LET kept == PruneOld(tx_times, now)
    IN /\ tx_times' = kept
       /\ rate' = [impl |-> "main", at |-> now, seen |-> tx_times, kept |-> kept,
                    value |-> RateOf(kept)]

\* telemetry_ws.py TelemetryServer._tx_rate_hz: an empty deque gives 0.0 at once.
TelemetryServer_tx_rate_hz ==
    IF Len(tx_times) = 0
    THEN /\ UNCHANGED tx_times
         /\ rate' = [impl |-> "telemetry_ws", at |-> now, seen |-> tx_times,
                      kept |-> tx_times, value |-> 0]
    ELSE LET kept == PruneOld(tx_times, now)
         IN /\ tx_times' = kept
            /\ rate' = [impl |-> "telemetry_ws", at |-> now, seen |-> tx_times,
                         kept |-> kept, value |-> RateOf(kept)]

\* A snapshot evaluates tx_rate_hz, in main.py or in telemetry_ws.py.
TxRateCall(impl) ==
    /\ IF impl = "main" THEN tx_rate_hz ELSE TelemetryServer_tx_rate_hz
    /\ UNCHANGED <<nextSend, v_eff, w_eff, nSent, lastLine, last_tx_time, tickLog>>
    /\ UNCHANGED <<hb_timeout_s, lq, hubVars, padVars, modeVars, axisVars, linkVars, wsVars, extVars>>

\* The clock advances; it does not pass the instant the sender is due.
TickRate ==
    /\ now < MaxTimeRate
    /\ now < nextSend
    /\ now' = now + 1
    /\ UNCHANGED <<buttons, hubVars, modeVars, axisVars, linkVars, txVars, fnVars, wsVars, extVars>>

InitTelemetry(timeouts) ==
    /\ hb_timeout_s \in timeouts
    /\ lq = NoLq
    /\ rate = NoRate

\* ------------------------------------------------------------- WebSocket server
notWsVars == <<hubVars, padVars, modeVars, axisVars, linkVars, txVars, fnVars, extVars>>

\* The handler a server starts for a requested path ("none": the connection
\* is rejected).  main.py run_unified_ws: routes.get(path); camera_start.py
\* ws_router: path != ROUTE_PATH; telemetry_ws.py serves its handler on every path.
RouteAcceptAll(pr, p) ==
    IF pr = "camera_start" THEN "camera" ELSE "telemetry"
Route(pr, p) ==
    IF pr = "main"
    THEN IF p = "/telemetry" THEN "telemetry"
         ELSE IF p = "/rgb_camera" THEN "camera"
         ELSE "none"
    ELSE IF pr = "camera_start"
    THEN IF p = "/stream" THEN "camera" ELSE "none"
    ELSE "telemetry"

\* Snapshots the telemetry handler sends on connect (ok: the send succeeds).
InitialSnapshotsNone(ok) == 0
InitialSnapshots(ok) == IF ok THEN 1 ELSE 0

\* The client set after the telemetry handler's on-connect send failed: in
\* main.py the send is outside the try/finally, so nothing discards the
\* client; in telemetry_ws.py the finally clause discards it.
AfterInitialSendFailure(pr, cs, k) == IF pr = "main" THEN cs ELSE cs \ {k}

\* The router, and the handler it starts up to its first suspension.
\* ok: whether the connection is still open when the handler first sends.
RouterDispatch(k, p, ok) ==
    /\ hstate[k] = "new"
    /\ path' = [path EXCEPT ![k] = p]
    /\ LET h == Route(prog, p)
       IN /\ handler' = [handler EXCEPT ![k] = h]
          /\ IF h = "none"
             THEN \* ws.close(code=1008, reason="Invalid route"); return
                  /\ close_code' = [close_code EXCEPT ![k] = InvalidRoute]
                  /\ hstate' = [hstate EXCEPT ![k] = "rejected"]
                  /\ open' = [open EXCEPT ![k] = FALSE]
                  /\ UNCHANGED <<snaps, frames, firstSnap, telemetry_clients>>
             ELSE IF h = "telemetry"
             THEN \* telemetry_handler: add, send a snapshot, then read until closed
                  /\ open' = [open EXCEPT ![k] = ok]
                  /\ snaps' = [snaps EXCEPT ![k] = InitialSnapshots(ok)]
                  /\ firstSnap' = [firstSnap EXCEPT ![k] =
                                      IF InitialSnapshots(ok) > 0 THEN "connect" ELSE "none"]
                  /\ hstate' = [hstate EXCEPT ![k] = IF ok THEN "run" ELSE "ended"]
                  /\ telemetry_clients' =
                         IF ok THEN telemetry_clients \cup {k}
                         ELSE AfterInitialSendFailure(prog, telemetry_clients \cup {k}, k)
                  /\ UNCHANGED <<close_code, frames>>
             ELSE \* camera_client_sender: send latest_jpeg if there is one, then loop
                  /\ open' = [open EXCEPT ![k] = ok]
                  /\ frames' = [frames EXCEPT ![k] =
                                   IF latest_jpeg # NoFrame /\ ok THEN 1 ELSE 0]
                  /\ hstate' = [hstate EXCEPT ![k] =
                                   IF latest_jpeg # NoFrame /\ ~ok THEN "ended" ELSE "run"]
                  /\ UNCHANGED <<close_code, snaps, firstSnap, telemetry_clients>>
    /\ UNCHANGED <<prog, bc, pending, tickStart, tickSent, tickFailed, tickNo>>
    /\ UNCHANGED notWsVars

\* The client goes away or the connection breaks.
ConnectionDrop(k) ==
    /\ hstate[k] = "run"
    /\ open[k]
    /\ open' = [open EXCEPT ![k] = FALSE]
    /\ UNCHANGED <<prog, path, handler, hstate, close_code, snaps, frames, firstSnap,
                   telemetry_clients, bc, pending, tickStart, tickSent, tickFailed, tickNo>>
    /\ UNCHANGED notWsVars

\* telemetry_handler: `async for _ in ws` ends when the connection is closed;
\* the finally clause discards the client.
TelemetryHandlerEnd(k) ==
    /\ handler[k] = "telemetry"
    /\ hstate[k] = "run"
    /\ ~open[k]
    /\ hstate' = [hstate EXCEPT ![k] = "ended"]
    /\ telemetry_clients' = telemetry_clients \ {k}
    /\ UNCHANGED <<prog, path, handler, open, close_code, snaps, frames, firstSnap,
                   bc, pending, tickStart, tickSent, tickFailed, tickNo>>
    /\ UNCHANGED notWsVars

\* camera_client_sender's loop: a frame is sent, or the send fails and the
\* handler ends (the frames themselves are SpecHub's subject).
CameraHandlerSend(k) ==
    /\ handler[k] = "camera"
    /\ hstate[k] = "run"
    /\ IF open[k]
       THEN /\ frames[k] < MaxCamSends
            /\ frames' = [frames EXCEPT ![k] = frames[k] + 1]
            /\ UNCHANGED hstate
       ELSE /\ hstate' = [hstate EXCEPT ![k] = "ended"]
            /\ UNCHANGED frames
    /\ UNCHANGED <<prog, path, handler, open, close_code, snaps, firstSnap,
                   telemetry_clients, bc, pending, tickStart, tickSent, tickFailed, tickNo>>
    /\ UNCHANGED notWsVars

\* telemetry_broadcaster after asyncio.sleep(publish_period) returned: with
\* clients, build the snapshot and start one _send_one per client of
\* list(telemetry_clients); without, sleep again.
BroadcastTick ==
    /\ bc = "sleep"
    /\ tickNo < MaxTicks
    /\ tickNo' = tickNo + 1
    /\ tickStart' = telemetry_clients
    /\ tickSent' = {}
    /\ tickFailed' = {}
    /\ pending' = telemetry_clients
    /\ bc' = IF telemetry_clients # {} THEN "gather" ELSE "sleep"
    /\ UNCHANGED <<prog, path, handler, hstate, open, close_code, snaps, frames,
                   firstSnap, telemetry_clients>>
    /\ UNCHANGED notWsVars

\* The send tasks left after one of them failed: the exception is caught in
\* _send_one, the others run on.
AfterFailureAbort(pend, k) == {}
AfterFailure(pend, k) == pend \ {k}

\* _send_one(client): send the tick's snapshot; on failure close the client
\* and discard it from the set.
SendOne(k) ==
    /\ bc = "gather"
    /\ k \in pending
    /\ IF open[k]
       THEN /\ snaps' = [snaps EXCEPT ![k] = snaps[k] + 1]
            /\ firstSnap' = [firstSnap EXCEPT ![k] =
                                IF firstSnap[k] = "none" THEN "broadcast" ELSE firstSnap[k]]
            /\ tickSent' = tickSent \cup {k}
            /\ pending' = pending \ {k}
            /\ UNCHANGED <<telemetry_clients, tickFailed>>
       ELSE /\ telemetry_clients' = telemetry_clients \ {k}
            /\ tickFailed' = tickFailed \cup {k}
            /\ pending' = AfterFailure(pending, k)
            /\ UNCHANGED <<snaps, firstSnap, tickSent>>
    /\ UNCHANGED <<prog, path, handler, hstate, open, close_code, frames,
                   bc, tickStart, tickNo>>
    /\ UNCHANGED notWsVars

\* `await asyncio.gather(*send_tasks, return_exceptions=True)` returns when
\* none of the send tasks is left unfinished.
GatherReturnsEarly(pend) == TRUE
GatherReturns(pend) == pend = {}

\* asyncio.gather returns when every send task has finished; the broadcaster
\* goes to sleep for publish_period.
GatherDone ==
    /\ bc = "gather"
    /\ GatherReturns(pending)
    /\ bc' = "sleep"
    /\ UNCHANGED <<prog, path, handler, hstate, open, close_code, snaps, frames, firstSnap,
                   telemetry_clients, pending, tickStart, tickSent, tickFailed, tickNo>>
    /\ UNCHANGED notWsVars

InitWs(programs) ==
    /\ prog \in programs
    /\ path = [k \in Conns |-> "none"]
    /\ handler = [k \in Conns |-> "none"]
    /\ hstate = [k \in Conns |-> "new"]
    /\ open = [k \in Conns |-> FALSE]
    /\ close_code = [k \in Conns |-> 0]
    /\ snaps = [k \in Conns |-> 0]
    /\ frames = [k \in Conns |-> 0]
    /\ firstSnap = [k \in Conns |-> "none"]
    /\ telemetry_clients = {}
    /\ bc = "sleep"
    /\ pending = {}
    /\ tickStart = {}
    /\ tickSent = {}
    /\ tickFailed = {}
    /\ tickNo = 0

\* ------------------------------------------------------------- configuration
\* ModeCfg's default scales.
DefaultScales == <<SpeedDefaultScale, SpeedPlusScale>>

\* load_config: the scales are whatever the configuration file gives.
InitCfg(pairs) ==
    \E sp \in pairs : speed_default_scale = sp[1] /\ speed_plus_scale = sp[2]

\* ------------------------------------------------------------- throttled client
notStreamVars == <<hubVars, padVars, modeVars, axisVars, linkVars, txVars, fnVars, wsVars, cfgVars,
                   handVars, readVars, snapVars>>

\* ws.send(frame) at time t: the bookkeeping of the send times.
StreamSent(t) ==
    /\ gap' = IF sentAt = None THEN None ELSE t - sentAt
    /\ sentAt' = t

\* camera_client_sender / client_sender with throttling, up to the loop:
\* last_send = 0.0, then latest_jpeg is sent if there is one.
StreamConnect ==
    /\ spc = "closed"
    /\ spc' = "next"
    /\ last_send' = 0
    /\ IF latest_jpeg # NoFrame THEN StreamSent(perf) ELSE UNCHANGED <<sentAt, gap>>
    /\ UNCHANGED <<perf, wakeAt>>
    /\ UNCHANGED notStreamVars

\* The throttle test of the loop: the send is delayed when the last loop send
\* is less than frame_period ago.
MustPace(t, ls) == t - ls < FramePeriod

\* hub.next returned a frame (from the queue, or latest_jpeg on its timeout):
\* the loop sleeps for the rest of the period, or sends at once.
StreamFrame ==
    /\ spc = "next"
    /\ latest_jpeg # NoFrame
    /\ IF MustPace(perf, last_send)
       THEN /\ spc' = "pace"
            /\ wakeAt' = perf + (FramePeriod - (perf - last_send))
            /\ UNCHANGED <<last_send, sentAt, gap>>
       ELSE /\ StreamSent(perf)
            /\ last_send' = perf
            /\ UNCHANGED <<spc, wakeAt>>
    /\ UNCHANGED perf
    /\ UNCHANGED notStreamVars

\* The throttle sleep returned: the frame is sent and last_send is taken.
StreamWake ==
    /\ spc = "pace"
    /\ perf >= wakeAt
    /\ StreamSent(perf)
    /\ last_send' = perf
    /\ spc' = "next"
    /\ UNCHANGED <<perf, wakeAt>>
    /\ UNCHANGED notStreamVars

\* The clock advances; it does not pass the instant the throttle sleep is due.
PerfTick ==
    /\ perf < MaxPerf
    /\ ~(spc = "pace" /\ perf >= wakeAt)
    /\ perf' = perf + 1
    /\ UNCHANGED <<spc, last_send, wakeAt, sentAt, gap>>
    /\ UNCHANGED notStreamVars

InitStream ==
    /\ perf = 0
    /\ spc = "closed"
    /\ last_send = 0
    /\ wakeAt = 0
    /\ sentAt = None
    /\ gap = None

\* The clock of SpecLine advances; it does not pass the instant a task is due.
TickLine ==
    /\ now < MaxTimeLine
    /\ now < nextPoll
    /\ now < nextSend
    /\ now' = now + 1
    /\ UNCHANGED <<buttons, modeVars, axisVars, linkVars, txVars>>

\* ------------------------------------------------------------- hardware reads
\* cfg.protocol.hb_msg, the heartbeat token.
hb_msg == "READY"

\* What one readline() may return, as a sequence of pieces: a token's bytes,
\* other text ("x"), line-end white space (" "), a byte that is not UTF-8
\* ("BAD"); <<>> is the empty result of a read that timed out.
RawReads ==
    { <<>>, <<" ">>, <<"READY", " ">>, <<"TIMEOUT", " ">>, <<"TIMEOUT_CLEAR", " ">>,
      <<"x", " ">>, <<"READY", "x", " ">>, <<"BAD", " ">>, <<"BAD", "READY", " ">> }

\* bytes.decode("utf-8", "ignore"): the bytes that do not decode are dropped.
Decode(raw) == SelectSeq(raw, LAMBDA b : b # "BAD")

\* str.strip(): leading and trailing white space is dropped.
Strip(line) ==
    LET idx == {i \in 1..Len(line) : line[i] # " "}
    IN IF idx = {} THEN <<>>
       ELSE SubSeq(line, CHOOSE i \in idx : \A j \in idx : i <= j,
                         CHOOSE i \in idx : \A j \in idx : i >= j)

\* _reader, line 54: the line is the heartbeat token.
IsHeartbeatAnyLine(line) == line # <<>>
IsHeartbeat(line) == line = <<hb_msg>>

offReadVars == <<hubVars, padVars, modeVars, axisVars, txVars, fnVars, wsVars,
                 cfgVars, streamVars, handVars, snapVars>>

\* One iteration of _reader whose readline() returns: an empty line is
\* skipped, the heartbeat token refreshes last_hb, the timeout tokens do
\* nothing, and on_line (main.py's on_rx) prints the line.
ReaderRead(raw) ==
    /\ run
    /\ nReads < MaxReads
    /\ nReads' = nReads + 1
    /\ rxRaw' = raw
    /\ LET line == Strip(Decode(raw))
       IN IF line # <<>> /\ IsHeartbeat(line)
          THEN last_hb' = now /\ hbRxAt' = now
          ELSE UNCHANGED <<last_hb, hbRxAt>>
    /\ UNCHANGED <<run, misses>>
    /\ UNCHANGED offReadVars

\* One iteration of _reader whose readline() raises serial.SerialException:
\* lines 48-50 clear run and leave the loop.
ReaderFail ==
    /\ run
    /\ nReads < MaxReads
    /\ nReads' = nReads + 1
    /\ run' = FALSE
    /\ UNCHANGED <<rxRaw, misses, last_hb, hbRxAt>>
    /\ UNCHANGED offReadVars

\* One iteration of camera_producer whose cap.read() gives no frame: a
\* message, a short sleep, and the loop goes on.
CameraMiss ==
    /\ pcProd = "run"
    /\ misses < MaxMisses
    /\ misses' = misses + 1
    /\ UNCHANGED <<run, rxRaw, nReads, last_hb, hbRxAt>>
    /\ UNCHANGED offReadVars

\* The clock of SpecRead advances.
TickRead ==
    /\ now < MaxTimeRead
    /\ now' = now + 1
    /\ UNCHANGED <<buttons, hubVars, modeVars, axisVars, linkVars, txVars, fnVars, wsVars, extVars>>

\* LoraLink.start_reader sets run; no read has been made yet.
InitRead ==
    /\ run = TRUE
    /\ rxRaw = <<>>
    /\ nReads = 0
    /\ misses = 0

\* ------------------------------------------------------------- telemetry snapshot
\* tx_rate_hz(state.get("tx_times", deque())): a missing key gives a fresh
\* empty deque, which is pruned and dropped.  <<what the state's deque is
\* left as, the rate>>.
SnapshotTxRate(has, dq, t_now) ==
    LET kept == PruneOld(IF has THEN dq ELSE <<>>, t_now)
    IN <<IF has THEN kept ELSE dq, RateOf(kept)>>

\* TelemetryServer._tx_rate_hz: state.get("tx_times") is None for a missing
\* key; `if not dq` returns 0.0 for None and for an empty deque.
TelemetryServer_SnapshotTxRateNoPrune(has, dq, t_now) == <<dq, RateOf(dq)>>
TelemetryServer_SnapshotTxRate(has, dq, t_now) ==
    IF ~has \/ Len(dq) = 0 THEN <<dq, 0>>
    ELSE LET kept == PruneOld(dq, t_now) IN <<kept, RateOf(kept)>>

\* The fields of a snapshot evaluated up to and including lora_connected.
\* telemetry_ws.py reads v_eff and w_eff first (lines 118-119), main.py last.
SnapshotHead(impl) ==
    [impl |-> impl, timestamp |-> now, sleep |-> sleep, speed_plus |-> speed_plus,
     lora_connected |-> IF impl = "main" THEN lora_connected(now - last_hb, hb_timeout_s)
                        ELSE TelemetryServer_lora_connected(now - last_hb, hb_timeout_s),
     link_quality |-> None, tx_rate_hz |-> None, rx_hb_age_s |-> None,
     v |-> IF impl = "main" THEN None ELSE v_eff,
     w |-> IF impl = "main" THEN None ELSE w_eff]

\* The fields evaluated after lora_connected, added to the head h.
SnapshotTail(h) ==
    [h EXCEPT !.link_quality = IF h.impl = "main" THEN link_quality(now - last_hb, hb_timeout_s)
                               ELSE TelemetryServer_link_quality(now - last_hb, hb_timeout_s),
              !.tx_rate_hz = IF h.impl = "main" THEN SnapshotTxRate(has_tx, tx_times, now)[2]
                             ELSE TelemetryServer_SnapshotTxRate(has_tx, tx_times, now)[2],
              !.rx_hb_age_s = now - last_hb,
              !.v = IF h.impl = "main" THEN v_eff ELSE @,
              !.w = IF h.impl = "main" THEN w_eff ELSE @]

\* What building a snapshot leaves state["tx_times"] as.
SnapshotKept(impl) ==
    IF impl = "main" THEN SnapshotTxRate(has_tx, tx_times, now)[1]
    ELSE TelemetryServer_SnapshotTxRate(has_tx, tx_times, now)[1]

NoSnap == [impl |-> "none", timestamp |-> 0, sleep |-> FALSE, speed_plus |-> FALSE,
           lora_connected |-> FALSE, link_quality |-> None, tx_rate_hz |-> None,
           rx_hb_age_s |-> None, v |-> None, w |-> None]

offSnapVars == <<hubVars, padVars, modeVars, axisVars, linkVars, fnVars, wsVars,
                 cfgVars, streamVars, handVars, readVars>>

\* telemetry_snapshot_json / TelemetryServer._snapshot, the dict literal up to
\* "lora_connected".  The snapshot is built without an await, so no other
\* task of the event loop runs before it is complete; the reader thread and
\* the clock do.
SnapshotBegin(impl) ==
    /\ snapPc = "idle"
    /\ snapPc' = "mid"
    /\ snap' = SnapshotHead(impl)
    /\ UNCHANGED <<has_tx, txVars>>
    /\ UNCHANGED offSnapVars

\* The rest of the dict literal: "link_quality", "tx_rate_hz" (which prunes
\* state["tx_times"]), "rx_hb_age_s", "v", "w".
SnapshotEnd ==
    /\ snapPc = "mid"
    /\ snapPc' = "idle"
    /\ snap' = SnapshotTail(snap)
    /\ tx_times' = SnapshotKept(snap.impl)
    /\ UNCHANGED <<has_tx, nextSend, v_eff, w_eff, nSent, lastLine, last_tx_time, tickLog>>
    /\ UNCHANGED offSnapVars

\* The clock of SpecSnap advances; it does not pass the instant the sender is due.
TickSnap ==
    /\ now < MaxTimeSnap
    /\ now < nextSend \/ ~has_tx
    /\ now' = now + 1
    /\ UNCHANGED <<buttons, hubVars, modeVars, axisVars, linkVars, txVars, fnVars, wsVars, extVars>>

InitSnap(keys) ==
    /\ has_tx \in keys
    /\ snapPc = "idle"
    /\ snap = NoSnap

\* The configuration may start awake or asleep; the default is asleep.
Init ==
    InitHub /\ InitCtl(BOOLEAN) /\ InitTelemetry({HbTimeout}) /\ InitWs({"main"})
    /\ InitCfg({DefaultScales}) /\ InitStream /\ InitRead
    /\ InitSnap({TRUE})
InitDefault ==
    InitHub /\ InitCtl({TRUE}) /\ InitTelemetry({HbTimeout}) /\ InitWs({"main"})
    /\ InitCfg({DefaultScales}) /\ InitStream /\ InitRead
    /\ InitSnap({TRUE})

\* Everything outside the FrameHub.
ctlVars == <<padVars, modeVars, axisVars, linkVars, txVars, fnVars, wsVars, extVars>>

NextHub ==
    \/ Publish /\ UNCHANGED ctlVars
    \/ \E c \in Consumers, t \in BOOLEAN, ok \in BOOLEAN :
           Connect(c, t, ok) /\ UNCHANGED ctlVars
    \/ \E c \in Consumers : NextCall(c) /\ UNCHANGED ctlVars
    \/ \E c \in Consumers : NextResume(c) /\ UNCHANGED ctlVars
    \/ \E c \in Consumers : NextTimeout(c) /\ UNCHANGED ctlVars
    \/ \E c \in Consumers, ok \in BOOLEAN : ClientSend(c, ok) /\ UNCHANGED ctlVars

SpecHub == InitDefault /\ [][NextHub]_vars

\* The event loop runs every task that is ready and fires every armed timer;
\* nothing obliges the camera to deliver frames or clients to connect.
FairHub ==
    \A c \in Consumers :
        /\ WF_vars(NextCall(c) /\ UNCHANGED ctlVars)
        /\ WF_vars(NextResume(c) /\ UNCHANGED ctlVars)
        /\ WF_vars(NextTimeout(c) /\ UNCHANGED ctlVars)
        /\ WF_vars(\E ok \in BOOLEAN : ClientSend(c, ok) /\ UNCHANGED ctlVars)

FairSpecHub == SpecHub /\ FairHub

\* Everything outside the FrameHub but the record of its handoffs.
ctlNoHand == <<padVars, modeVars, axisVars, linkVars, txVars, fnVars, wsVars,
               cfgVars, streamVars, readVars, snapVars>>

\* The FrameHub and its clients again, with the record of handoffs; every
\* ws.send succeeds, so a client stays connected once it is.
NextHandoff ==
    \/ Publish /\ UNCHANGED ctlVars
    \/ \E c \in Consumers, t \in BOOLEAN, ok \in BOOLEAN :
           Connect(c, t, ok) /\ UNCHANGED ctlVars
    \/ \E c \in Consumers : NextCall(c) /\ RecordHandoff(c) /\ UNCHANGED ctlNoHand
    \/ \E c \in Consumers : NextResume(c) /\ RecordHandoff(c) /\ UNCHANGED ctlNoHand
    \/ \E c \in Consumers : NextTimeout(c) /\ UNCHANGED ctlVars
    \/ \E c \in Consumers : ClientSend(c, TRUE) /\ UNCHANGED ctlVars

FairHandoff ==
    \A c \in Consumers :
        /\ WF_vars(NextCall(c) /\ RecordHandoff(c) /\ UNCHANGED ctlNoHand)
        /\ WF_vars(NextResume(c) /\ RecordHandoff(c) /\ UNCHANGED ctlNoHand)
        /\ WF_vars(NextTimeout(c) /\ UNCHANGED ctlVars)
        /\ WF_vars(ClientSend(c, TRUE) /\ UNCHANGED ctlVars)

SpecHandoff == InitDefault /\ [][NextHandoff]_vars /\ FairHandoff

NextMode ==
    \/ TickMode /\ UNCHANGED offCtlVars
    \/ \E b \in Buttons, d \in BOOLEAN : ButtonEvent({b}, d) /\ UNCHANGED offCtlVars
    \/ ModePoll /\ UNCHANGED offCtlVars

SpecMode == Init /\ [][NextMode]_vars

\* mode_manager and the buttons again, with the record of qualifying holds.
NextHold ==
    \/ TickHold /\ UNCHANGED offCtlVars
    \/ \E b \in Buttons, d \in BOOLEAN : ButtonEvent({b}, d) /\ UNCHANGED offCtlVars
    \/ ModePoll /\ UNCHANGED offCtlVars

SpecHold == Init /\ [][NextHold]_vars

Next ==
    \/ Tick /\ UNCHANGED offCtlVars
    \/ \E d \in BOOLEAN : ButtonEvent(ComboButtons("sleep"), d) /\ UNCHANGED offCtlVars
    \/ ModePoll /\ UNCHANGED offCtlVars
    \/ \E a \in {"v", "w"}, n \in AxisValues : AxisEvent(a, n) /\ UNCHANGED offCtlVars
    \/ HbRecv /\ UNCHANGED offCtlVars
    \/ SenderTick /\ UNCHANGED offCtlVars

Spec == Init /\ [][Next]_vars

\* The control side with the default configuration: start_sleep is true.
SpecAsleep == InitDefault /\ [][Next]_vars

\* The link-health helpers of the telemetry snapshot over every heartbeat age.
InitQuality ==
    InitHub /\ InitCtl({TRUE}) /\ InitTelemetry(Timeouts) /\ InitWs({"main"})
    /\ InitCfg({DefaultScales}) /\ InitStream /\ InitRead
    /\ InitSnap({TRUE})

NextQuality ==
    \/ ClockAdvance
    \/ ClockSetBack
    \/ HbRecv /\ UNCHANGED offCtlVars
    \/ \E impl \in {"main", "telemetry_ws"} : LinkQualityCall(impl)

SpecQuality == InitQuality /\ [][NextQuality]_vars

\* The transmit-rate helper of the telemetry snapshot beside a running sender.
InitRate ==
    InitHub /\ InitCtl({FALSE}) /\ InitTelemetry({HbTimeout}) /\ InitWs({"main"})
    /\ InitCfg({DefaultScales}) /\ InitStream /\ InitRead
    /\ InitSnap({TRUE})

NextRate ==
    \/ TickRate
    \/ HbRecv /\ UNCHANGED offCtlVars
    \/ SenderTick /\ UNCHANGED offCtlVars
    \/ \E impl \in {"main", "telemetry_ws"} : TxRateCall(impl)

SpecRate == InitRate /\ [][NextRate]_vars

\* The WebSocket server: router, route handlers and telemetry broadcaster.
InitServer ==
    InitHub /\ InitCtl({TRUE}) /\ InitTelemetry({HbTimeout}) /\ InitWs(Programs)
    /\ InitCfg({DefaultScales}) /\ InitStream /\ InitRead
    /\ InitSnap({TRUE})

NextWs ==
    \/ \E k \in Conns, p \in Paths, ok \in BOOLEAN : RouterDispatch(k, p, ok)
    \/ \E k \in Conns : ConnectionDrop(k)
    \/ \E k \in Conns : TelemetryHandlerEnd(k)
    \/ \E k \in Conns : CameraHandlerSend(k)
    \/ BroadcastTick
    \/ \E k \in Conns : SendOne(k)
    \/ GatherDone

SpecWs == InitServer /\ [][NextWs]_vars

\* The telemetry snapshot of main.py and of telemetry_ws.py over a state dict
\* with or without "tx_times", beside the sender (which needs the key), the
\* gamepad axes and the reader thread.
InitSnapshot ==
    InitHub /\ InitCtlModes(BOOLEAN, BOOLEAN) /\ InitTelemetry({HbTimeout, HbTimeout + 1})
    /\ InitWs({"main"}) /\ InitCfg({DefaultScales}) /\ InitStream /\ InitRead
    /\ InitSnap(BOOLEAN)

NextSnap ==
    \/ TickSnap
    \/ HbRecv /\ UNCHANGED offCtlVars
    \/ \E n \in AxisValues : snapPc = "idle" /\ AxisEvent("v", n) /\ UNCHANGED offCtlVars
    \/ snapPc = "idle" /\ has_tx /\ SenderTick /\ UNCHANGED offCtlVars
    \/ \E impl \in {"main", "telemetry_ws"} : SnapshotBegin(impl)
    \/ SnapshotEnd

SpecSnap == InitSnapshot /\ [][NextSnap]_vars

\* The sender awake beside the reader thread, whose reads bring heartbeats or
\* other lines until a read fails and the thread ends.
NextSilence ==
    \/ TickRate
    \/ \E raw \in {<<"READY", " ">>, <<"TIMEOUT", " ">>} : ReaderRead(raw)
    \/ ReaderFail
    \/ SenderTick /\ UNCHANGED offCtlVars

SpecSilence == InitRate /\ [][NextSilence]_vars

\* The serial reader thread and the camera producer with their reads.
NextRead ==
    \/ TickRead
    \/ \E raw \in RawReads : ReaderRead(raw)
    \/ ReaderFail
    \/ CameraMiss
    \/ Publish /\ UNCHANGED ctlVars

SpecRead == InitDefault /\ [][NextRead]_vars

\* One throttled frame-route client beside the camera producer.
NextThrottle ==
    \/ Publish /\ UNCHANGED ctlVars
    \/ StreamConnect
    \/ StreamFrame
    \/ StreamWake
    \/ PerfTick

SpecThrottle == InitDefault /\ [][NextThrottle]_vars

\* The sender, under the default and under a faster pair of speed scales,
\* with the speed chord as the button input.
InitLine ==
    InitHub /\ InitCtl(BOOLEAN) /\ InitTelemetry({HbTimeout}) /\ InitWs({"main"})
    /\ InitCfg(ScalePairs) /\ InitStream /\ InitRead
    /\ InitSnap({TRUE})

NextLine ==
    \/ TickLine /\ UNCHANGED offCtlVars
    \/ \E d \in BOOLEAN : ButtonEvent(ComboButtons("speed"), d) /\ UNCHANGED offCtlVars
    \/ ModePoll /\ UNCHANGED offCtlVars
    \/ \E a \in {"v", "w"}, n \in LineAxisValues : AxisEvent(a, n) /\ UNCHANGED offCtlVars
    \/ HbRecv /\ UNCHANGED offCtlVars
    \/ SenderTick /\ UNCHANGED offCtlVars

SpecLine == InitLine /\ [][NextLine]_vars

\* ------------------------------------------------------------ FrameHub claims

\* C1: a next call issued after publish n (n >= 1) and before publish n+1
\* returns frame n or a later one, through the queue or through the timeout.
C1_NextNeverStale ==
    \A c \in Consumers :
        (pc[c] = "ret" /\ issued[c] >= 1) => ret[c] >= issued[c]

C1_Witness ==
    \E c, d \in Consumers :
        /\ pc[c] = "ret" /\ issued[c] >= 1 /\ via[c] = "timeout" /\ ret[c] = issued[c]
        /\ pc[d] = "ret" /\ issued[d] >= 1 /\ via[d] = "queue" /\ ret[d] > issued[d]

\* C2: if f is the last frame published, every consumer that stays connected
\* eventually has a next call return f.
C2_EventuallySeesLatest ==
    \A c \in Consumers, f \in 1..MaxFrames :
        (<>[](latest_jpeg = f /\ pc[c] # "closed")) => <>(ret[c] = f)

\* C3: publish never suspends: the producer is never left waiting in q.put and
\* can publish from every hub state, whatever the consumers are doing.
C3_PublishNeverBlocks ==
    /\ pcProd = "run"
    /\ (published < MaxFrames => ENABLED (Publish /\ UNCHANGED ctlVars))

C3_Witness ==
    /\ pcProd = "run" /\ lastDiscard /\ published >= 2
    /\ \E c \in Consumers : pc[c] = "wait"
    /\ \E c \in Consumers : pc[c] = "closed"

\* C4: the queue never holds more than one frame, and right after publish(f)
\* it holds exactly f.
C4_SlotHoldsNewest ==
    /\ [](Len(q) <= 1)
    /\ [][published' # published =>
              (q' = <<published'>> /\ latest_jpeg' = published')]_vars

C4_Witness == lastDiscard /\ published >= 2 /\ q = <<published>>

\* C5: before any publish, a next call with a finite timeout returns None, by
\* its timeout, and does not stay suspended.
C5_TimeoutBeforePublish ==
    /\ [](\A c \in Consumers :
            (pc[c] = "ret" /\ published = 0) =>
                (ret[c] = NoFrame /\ via[c] = "timeout" /\ tmo[c]))
    /\ \A c \in Consumers :
            (pc[c] = "wait" /\ tmo[c] /\ published = 0)
                ~> (published > 0 \/ (pc[c] = "ret" /\ ret[c] = NoFrame))

C5_Witness ==
    \E c \in Consumers :
        pc[c] = "ret" /\ tmo[c] /\ published = 0 /\ ret[c] = NoFrame /\ via[c] = "timeout"

\* ------------------------------------------------------------ sender claims

\* C6: a sender tick taken while state["sleep"] is set writes no line and
\* appends nothing to tx_times, whatever the axes and the heartbeat age.
C6_SleepWithholds ==
    [][(nextSend' # nextSend /\ sleep) =>
          (nSent' = nSent /\ lastLine' = lastLine /\ tx_times' = tx_times)]_vars

C6_Witness ==
    /\ tickLog = "sleep" /\ sleep /\ nSent > 0
    /\ v_eff # 0 /\ now - last_hb <= HbTimeout

\* C7: a sender tick taken while the heartbeat is older than the timeout
\* writes no line, whatever the sleep flag and the axes.
C7_StaleWithholds ==
    [][(nextSend' # nextSend /\ now - last_hb > HbTimeout) =>
          (nSent' = nSent /\ lastLine' = lastLine)]_vars

C7_Witness ==
    /\ tickLog = "stale" /\ ~sleep /\ nSent > 0
    /\ v_eff # 0 /\ now - last_hb > HbTimeout

\* C8: a line is written only if a heartbeat token was received from the
\* serial link at most HbTimeout before the tick; none before the first one.
C8_OnlyOverLiveLink ==
    [][nSent' # nSent => (hbRxAt # None /\ now - hbRxAt <= HbTimeout)]_vars

\* ------------------------------------------------------------ mode claims

\* C9: while the polls see both buttons of a combo down, from the poll that
\* started its timer on, the combo's flag is flipped at most once.
C9_OneFlipPerHold == \A k \in Combos : obsFlips[k] <= 1

C9_Witness ==
    \E k \in Combos :
        /\ obsFlips[k] = 1 /\ combo_fired[k] /\ BothDown(buttons, k)
        /\ now - combo_t0[k] >= HOLD + 2 * PollPeriod

\* A step that ends a hold of combo k which lasted exactly HOLD.
ExactHoldEnds(k) ==
    heldSince[k] # None /\ heldSince'[k] = None /\ now - heldSince[k] = HOLD

FlagFlips(k) == IF k = "sleep" THEN sleep' # sleep ELSE speed_plus' # speed_plus

\* C11: a mode flag is flipped only when both buttons of its combo have been
\* down continuously for at least HOLD; presses and releases whose continuous
\* both-down intervals are all shorter (two short holds separated by a release
\* shorter than one polling period included) never flip it.
C11_ShortHoldsNeverFlip ==
    [][\A k \in Combos : FlagFlips(k) => longHold[k]]_vars

\* ------------------------------------------------------------ telemetry claims

\* The reference mapping of C12: n is a nearest integer to 125 * (T - age) / T,
\* which is 100 * (1 - (age - 0.2 T) / (0.8 T)).
NearestToRamp(n, age, T) ==
    LET d == 2 * (n * T - 125 * (T - age))
    IN (IF d >= 0 THEN d ELSE -d) <= T

\* C12: link_quality is 100 when age <= 0.2 T, 0 when age >= T, and else the
\* ramp 100 * (1 - (age - 0.2 T) / (0.8 T)) rounded to the nearest integer, in
\* main.py and in telemetry_ws.py; T = 15 s and age = 12 s give connected and 25.
C12_QualityIsReference ==
    lq.impl # "none" =>
        /\ (5 * lq.age <= lq.timeout) => lq.quality = 100
        /\ (lq.age >= lq.timeout) => lq.quality = 0
        /\ (5 * lq.age > lq.timeout /\ lq.age < lq.timeout) =>
               NearestToRamp(lq.quality, lq.age, lq.timeout)
        /\ (lq.timeout = 15 /\ lq.age = 12) => (lq.connected /\ lq.quality = 25)

C12_Witness ==
    /\ lq.impl = "main" /\ lq.timeout = 15 /\ lq.age = 12
    /\ lq.connected /\ lq.quality = 25

\* C13: link_quality is non-increasing in the heartbeat age, is 100 at age 0
\* and 0 at age = timeout, and lies in 0..100 for every age, negative ages and
\* ages beyond the timeout included.
C13_QualityMonotone ==
    /\ [](lq.impl # "none" =>
            /\ lq.quality \in 0..100
            /\ lq.age = 0 => lq.quality = 100
            /\ lq.age = lq.timeout => lq.quality = 0)
    /\ [][(lq.impl # "none" /\ lq'.age >= lq.age) => lq'.quality <= lq.quality]_vars

C13_Witness ==
    /\ lq.impl # "none" /\ lq.age < 0 /\ lq.quality = 100
    /\ now < last_hb

\* The entries of a deque that are not older than the window at t_now.
WithinWindow(dq, t_now) == SelectSeq(dq, LAMBDA t : ~(t_now - t > TxWindow))

\* C14: tx_rate_hz removes exactly the entries older than the window from the
\* time-ordered tx_times and returns the number of remaining entries divided
\* by 3.0, rounded to 2 decimals: three entries in the window give 1.0, none 0.0.
C14_RateCountsWindow ==
    rate.impl # "none" =>
        /\ rate.kept = WithinWindow(rate.seen, rate.at)
        /\ 3 * rate.value - 100 * Len(rate.kept) \in -1..1
        /\ Len(rate.kept) = 3 => rate.value = 100
        /\ Len(rate.kept) = 0 => rate.value = 0

C14_Witness ==
    /\ rate.impl = "main" /\ Len(rate.seen) = 3 /\ Len(rate.kept) = 2
    /\ rate.value = 67 /\ tx_times = rate.kept

\* ------------------------------------------------------------ server claims

\* C15: under the routers (main.py run_unified_ws, camera_start.py ws_router)
\* a connection whose path is in the route map runs exactly that route's
\* handler; a connection with any other path is closed with code 1008, runs no
\* handler, is never in the telemetry client set and never gets a frame or a
\* snapshot.
RouteMap(pr) == IF pr = "main" THEN {"/telemetry", "/rgb_camera"} ELSE {"/stream"}

C15_RouterDispatchesOne ==
    prog \in {"main", "camera_start"} =>
        \A k \in Conns : path[k] # "none" =>
            IF path[k] \in RouteMap(prog)
            THEN /\ handler[k] = (IF path[k] = "/telemetry" THEN "telemetry" ELSE "camera")
                 /\ close_code[k] = 0
                 /\ (handler[k] = "telemetry" => frames[k] = 0)
                 /\ (handler[k] = "camera" => (snaps[k] = 0 /\ k \notin telemetry_clients))
            ELSE /\ handler[k] = "none"
                 /\ close_code[k] = 1008
                 /\ hstate[k] = "rejected"
                 /\ k \notin telemetry_clients /\ k \notin pending
                 /\ snaps[k] = 0 /\ frames[k] = 0

C15_Witness ==
    /\ prog = "main"
    /\ \E j, k \in Conns :
          /\ path[j] = "/stream" /\ hstate[j] = "rejected" /\ close_code[j] = 1008
          /\ path[k] = "/telemetry" /\ handler[k] = "telemetry" /\ snaps[k] >= 2

\* C16: a client that connects on the telemetry route is added to the client
\* set and sent one snapshot at once, by the handler and not by the
\* broadcaster, whatever the broadcaster is doing (sleeping or mid fan-out).
C16_SnapshotOnConnect ==
    /\ [][\A k \in Conns :
            (hstate[k] = "new" /\ handler'[k] = "telemetry" /\ open'[k]) =>
                /\ k \in telemetry_clients'
                /\ snaps'[k] = 1 /\ firstSnap'[k] = "connect"
                /\ bc' = bc /\ pending' = pending /\ tickNo' = tickNo]_vars
    /\ [](\A k \in Conns : snaps[k] >= 1 => firstSnap[k] = "connect")

C16_Witness ==
    \E j, k \in Conns :
        /\ bc = "gather" /\ j \in pending /\ k \notin tickStart
        /\ handler[k] = "telemetry" /\ hstate[k] = "run"
        /\ k \in telemetry_clients /\ snaps[k] = 1 /\ firstSnap[k] = "connect"

\* C17: the telemetry client set only holds clients whose handler is still
\* running: once a client's handler has ended (disconnect, or a failed send,
\* the on-connect snapshot included) the client is not in the set.
C17_SetHoldsRunningOnly ==
    \A k \in telemetry_clients : hstate[k] = "run"

\* C18: in a broadcast tick a failed send removes that client alone and does
\* not end the tick: when the gather returns, every client of the tick's
\* list(telemetry_clients) was sent the snapshot unless its own send failed,
\* those whose connection is still up are still in the set, and the
\* broadcaster sleeps until its next tick.
C18_FailureIsLocal ==
    /\ [][\A k \in Conns :
            (k \in tickFailed' /\ k \notin tickFailed) =>
                (telemetry_clients' = telemetry_clients \ {k} /\ bc' = "gather")]_vars
    /\ [][(bc = "gather" /\ bc' = "sleep") =>
            /\ tickStart \subseteq (tickSent \cup tickFailed)
            /\ \A k \in tickSent :
                   (open[k] /\ hstate[k] = "run") => k \in telemetry_clients]_vars
    /\ []((bc = "sleep" /\ tickNo < MaxTicks) => ENABLED BroadcastTick)

C18_Witness ==
    /\ bc = "sleep" /\ tickNo = 1
    /\ \E j, k \in Conns :
          /\ j # k /\ {j, k} \subseteq tickStart
          /\ j \in tickFailed /\ j \notin telemetry_clients
          /\ k \in tickSent /\ k \in telemetry_clients /\ snaps[k] = 2

\* ------------------------------------------------------------ pacing and wire claims

\* C19: with throttling, two consecutive frame sends to a client are never
\* less than the frame period apart, the on-connect send of latest_jpeg and
\* the first send of the loop included.
C19_SendSpacing == gap # None => gap >= FramePeriod

\* C20: every line written to the serial link carries v and w within [-1, 1],
\* for every raw axis pair in [-1, 1], both speed modes and every configured
\* pair of speed scales.
C20_LineInUnitRange ==
    nSent > 0 =>
        /\ lastLine[1] \in -1000..1000
        /\ lastLine[2] \in -1000..1000

\* ------------------------------------------------------------ ownership claims

\* C21: each shared field has one writer: last_hb is changed only by the serial
\* reader, tx_times, v_eff and w_eff only by a sender_task tick, the mode flags
\* only by a mode_manager poll; a telemetry snapshot changes none of them.
C21_SingleWriter ==
    [][ /\ (tx_times' # tx_times => nextSend' # nextSend)
        /\ ((v_eff' # v_eff \/ w_eff' # w_eff) => nextSend' # nextSend)
        /\ ((sleep' # sleep \/ speed_plus' # speed_plus) => nextPoll' # nextPoll)
        /\ (last_hb' # last_hb => (hbRxAt' = now /\ rate' = rate /\ lq' = lq))
        /\ (rate' # rate => tx_times' = tx_times) ]_vars

\* ------------------------------------------------------------ handoff claims

\* C22: no published frame is returned through the queue by two next calls
\* (so of the callers waiting at a publish at most one returns through the
\* handoff); a waiting caller with a finite timeout does return, and a return
\* by timeout returns latest_jpeg.
C22_OneHandoffPerPublish ==
    /\ [](\A f \in 1..MaxFrames : handed[f] <= 1 /\ (f > published => handed[f] = 0))
    /\ [][\A c \in Consumers :
            (pc[c] = "wait" /\ pc'[c] = "ret" /\ via'[c] = "timeout") =>
                (tmo[c] /\ ret'[c] = latest_jpeg)]_vars
    /\ \A c \in Consumers : (pc[c] = "wait" /\ tmo[c]) ~> (pc[c] = "ret")

C22_Witness ==
    \E c, d \in Consumers :
        /\ c # d /\ issued[c] = 0 /\ issued[d] = 0 /\ published = 1
        /\ pc[c] = "ret" /\ via[c] = "queue" /\ ret[c] = 1 /\ handed[1] = 1
        /\ pc[d] = "ret" /\ via[d] = "timeout" /\ ret[d] = 1

\* C23: whenever the handoff queue holds a frame, that frame is latest_jpeg.
C23_SlotIsLatest == Len(q) > 0 => (Len(q) = 1 /\ Head(q) = latest_jpeg)

C23_Witness ==
    /\ Len(q) > 0 /\ Head(q) = latest_jpeg /\ latest_jpeg = 2
    /\ \E c \in Consumers : pc[c] = "ret" /\ via[c] = "queue" /\ ret[c] = 1

\* C24: the frame a throttled client's sender hands to ws.send is latest_jpeg
\* at that moment.
C24_SendsNewest ==
    [][\A c \in Consumers :
         (tmo[c] /\ pc[c] = "ret" /\ ret[c] # NoFrame /\ lastSent'[c] = ret[c]
                 /\ pc'[c] = "call")
             => ret[c] = latest_jpeg]_vars

\* ------------------------------------------------------------ sender claims

\* C25: every sender_task tick sets v_eff to the raw forward value times the
\* scale of the current speed mode (rounded to thousandths) and w_eff to the
\* raw turn value, whether or not the tick is then withheld by sleep or by a
\* stale heartbeat.
C25_EffectiveSetEveryTick ==
    [][nextSend' # nextSend =>
          LET scale == IF speed_plus THEN speed_plus_scale ELSE speed_default_scale
              err   == 1000 * v_eff' - v * scale
          IN /\ -1000 <= 2 * err /\ 2 * err <= 1000
             /\ w_eff' = w]_vars

C25_Witness ==
    /\ tickLog = "sleep" /\ sleep /\ nSent = 0
    /\ v = -1000 /\ v_eff = -speed_default_scale /\ ~speed_plus
    /\ w = 1000 /\ w_eff = 1000

\* C26: a timestamp is appended to tx_times on exactly the ticks that write a
\* line: a step that writes a line appends the time of the write, and no other
\* step appends anything.
C26_AppendIffWritten ==
    [][IF nSent' # nSent
       THEN /\ nSent' = nSent + 1
            /\ Len(tx_times') > 0 /\ tx_times'[Len(tx_times')] = now
            /\ Len(tx_times') = Min(Len(tx_times) + 1, TxMaxLen)
            /\ last_tx_time' = now
       ELSE tx_times' = tx_times /\ last_tx_time' = last_tx_time]_vars

C26_Witness ==
    /\ tickLog = "sleep" /\ nSent = 2 /\ Len(tx_times) = 2
    /\ tx_times[2] = last_tx_time /\ last_tx_time < now

\* ------------------------------------------------------------ combo claims

\* The mode flag of combo k.
FlagOf(k) == IF k = "sleep" THEN sleep ELSE speed_plus

\* C27: a poll that finds a button of a combo up clears the combo's timer and
\* its fired flag, whatever they were, and leaves the flag; a hold the polls
\* observe after that fires like a first one (an idle combo has not fired, and
\* a running timer that has not fired flips the flag once HOLD has elapsed).
C27_ReleaseResets ==
    /\ [][\A k \in Combos :
            (nextPoll' # nextPoll /\ ~(\A b \in ComboButtons(k) : buttons[b])) =>
                /\ combo_t0'[k] = None
                /\ combo_fired'[k] = FALSE
                /\ FlagOf(k)' = FlagOf(k)]_vars
    /\ [](\A k \in Combos : combo_t0[k] = None => ~combo_fired[k])
    /\ [][\A k \in Combos :
            (nextPoll' # nextPoll /\ (\A b \in ComboButtons(k) : buttons[b])
                 /\ combo_t0[k] # None /\ ~combo_fired[k] /\ now - combo_t0[k] >= HOLD) =>
                (FlagOf(k)' = ~FlagOf(k) /\ combo_fired'[k])]_vars

\* The speed combo fired, was released at a poll while fired, and fired again.
C27_Witness ==
    /\ ~speed_plus /\ combo_fired["speed"] /\ physFlips["speed"] = 1
    /\ now - combo_t0["speed"] = HOLD /\ combo_t0["speed"] >= HOLD + 2 * PollPeriod

\* The buttons that are not combo k's.
OtherButtons(k) == IF k = "sleep" THEN {"TL2", "TR2"} ELSE {"TL", "TR"}

\* C28: the combos are independent: what a poll does to a combo's flag, timer
\* and fired flag is the same for every state of the other combo's buttons,
\* no other step changes them, and a flag flips only with its own two buttons
\* down.
C28_CombosIndependent ==
    [][\A k \in Combos :
          /\ nextPoll' # nextPoll =>
                \A alt \in [OtherButtons(k) -> BOOLEAN] :
                    LET b2 == [b \in Buttons |->
                                  IF b \in OtherButtons(k) THEN alt[b] ELSE buttons[b]]
                    IN <<combo_t0'[k], combo_fired'[k], FlagOf(k)'>> =
                           ComboStep(BothDown(b2, k), combo_t0[k], combo_fired[k], FlagOf(k))
          /\ nextPoll' = nextPoll =>
                /\ combo_t0'[k] = combo_t0[k]
                /\ combo_fired'[k] = combo_fired[k]
                /\ FlagOf(k)' = FlagOf(k)
          /\ FlagOf(k)' # FlagOf(k) => \A b \in Buttons \ OtherButtons(k) : buttons[b]]_vars

\* The sleep chord was held and fired with one speed button down all along,
\* and the speed combo stayed idle.
C28_Witness ==
    /\ combo_fired["sleep"] /\ buttons["TL"] /\ buttons["TR"]
    /\ buttons["TL2"] /\ ~buttons["TR2"] /\ heldSince["speed"] = None
    /\ combo_t0["speed"] = None /\ ~combo_fired["speed"] /\ ~speed_plus

\* ------------------------------------------------------------ hardware read claims

\* The reader's last read gave the line that is exactly the heartbeat token.
GotHeartbeat(raw) == Strip(Decode(raw)) = <<"READY">>

\* C29: in the serial reader a line equal to the heartbeat token sets last_hb
\* to the time it is received; any other line (timeout token, timeout-clear
\* token, other text, an empty line) leaves last_hb, the reader's run flag and
\* the mode and sender state as they were.
C29_OnlyHeartbeatRefreshes ==
    [][(nReads' # nReads /\ run') =>
          /\ IF GotHeartbeat(rxRaw')
             THEN last_hb' = now /\ hbRxAt' = now
             ELSE last_hb' = last_hb /\ hbRxAt' = hbRxAt
          /\ UNCHANGED <<run, modeVars, axisVars, txVars, fnVars, now>>]_vars

C29_Witness ==
    /\ nReads = 3 /\ run /\ rxRaw = <<"TIMEOUT", " ">>
    /\ hbRxAt = 1 /\ last_hb = 1 /\ now = 2

\* C30: a failed read is recoverable: a camera read that gives no frame
\* publishes nothing and leaves the producer running; a serial read that fails
\* or is malformed records no heartbeat and leaves the reader running.
C30_FailedReadRecoverable ==
    [][/\ misses' # misses =>
            (published' = published /\ latest_jpeg' = latest_jpeg /\ q' = q
                /\ pcProd' = "run")
       /\ nReads' # nReads => run'
       /\ (nReads' # nReads /\ (~run' \/ \E i \in 1..Len(rxRaw') : rxRaw'[i] = "BAD")) =>
            (last_hb' = last_hb /\ hbRxAt' = hbRxAt)]_vars

\* ------------------------------------------------------------ snapshot claims

\* The fields of the snapshot impl builds from the current state in one go.
SnapshotFields(impl) == [SnapshotTail(SnapshotHead(impl)) EXCEPT !.impl = "any"]

\* C31: from every state (tx_times present, empty or missing; every clock
\* value, heartbeat time and timeout) telemetry_snapshot_json of main.py and
\* TelemetryServer._snapshot_json of telemetry_ws.py give the same fields and
\* leave state["tx_times"] the same.
C31_SnapshotsAgree ==
    /\ SnapshotFields("main") = SnapshotFields("telemetry_ws")
    /\ SnapshotKept("main") = SnapshotKept("telemetry_ws")

C31_Witness ==
    /\ snapPc = "idle" /\ snap.impl = "telemetry_ws" /\ snap.timestamp = now
    /\ snap.tx_rate_hz > 0 /\ nSent = 2 /\ Len(tx_times) = 1
    /\ snap.link_quality \in 1..99 /\ snap.lora_connected /\ snap.v # 0
    /\ snap = [SnapshotFields("main") EXCEPT !.impl = "telemetry_ws"]

\* C36: the link fields of one snapshot are consistent, also when the reader
\* thread records a heartbeat while the snapshot is built: lora_connected is
\* false only if link_quality is 0, and link_quality is 100 only if
\* lora_connected is true.
C36_LinkFieldsConsistent ==
    (snapPc = "idle" /\ snap.impl # "none") =>
        /\ ~snap.lora_connected => snap.link_quality = 0
        /\ snap.link_quality = 100 => snap.lora_connected

\* ------------------------------------------------------------ link gate claims

\* C32: on every tick on which sender_task writes a line, lora_connected
\* evaluated at that instant with the same timeout is true.
C32_SenderAgreesWithConnected ==
    [][nSent' # nSent => lora_connected(now - last_hb, HbTimeout)]_vars

\* ------------------------------------------------------------ frame order claims

\* C33: the frames sent to one frame-route client are in non-decreasing
\* publish order; the same frame may be sent again.
C33_SendsInPublishOrder ==
    [][\A c \in Consumers :
          (lastSent[c] # NoFrame /\ lastSent'[c] # NoFrame) => lastSent'[c] >= lastSent[c]]_vars

\* One client is about to be sent a newer frame than its last one, another is
\* about to be sent its last frame again (a keep-alive repeat).
C33_Witness ==
    \E c, d \in Consumers :
        /\ c # d
        /\ lastSent[c] = 2 /\ pc[c] = "ret" /\ ret[c] = 3 /\ via[c] = "queue"
        /\ lastSent[d] = 3 /\ pc[d] = "ret" /\ ret[d] = 3 /\ via[d] = "timeout"

\* ------------------------------------------------------------ sleep and silence claims

\* C34: started asleep, sender_task writes no line until mode_manager has
\* flipped sleep off by a completed hold of the sleep chord: the process starts
\* with sleep set, a line is written only with sleep off, and sleep goes off
\* only in a poll that finds both buttons down with the timer HOLD old.
C34_AsleepUntilHold ==
    /\ (sleep = TRUE /\ nSent = 0)
    /\ [][nSent' # nSent => ~sleep]_vars
    /\ [][(sleep /\ ~sleep') =>
            /\ nextPoll' # nextPoll
            /\ buttons["TL"] /\ buttons["TR"]
            /\ combo_t0["sleep"] # None /\ now - combo_t0["sleep"] >= HOLD
            /\ combo_fired'["sleep"]]_vars

C34_Witness ==
    /\ nSent = 1 /\ tickLog = "sent" /\ ~sleep /\ combo_fired["sleep"]
    /\ last_tx_time >= PollPeriod + HOLD /\ v_eff # 0

\* When the last heartbeat token was received; before the first, when the
\* link object was made (LoraLink.__init__ sets last_hb to the time then).
LastHeartbeatAt == IF hbRxAt = None THEN 0 ELSE hbRxAt

\* C35: with no heartbeat received after time t, no line is written on a tick
\* later than t plus the heartbeat timeout, whether the link is silent or the
\* reader thread has ended; a line is written again only after a new heartbeat.
C35_SilentLinkStopsSender ==
    [][nSent' # nSent => now - LastHeartbeatAt <= HbTimeout]_vars

\* The reader has ended; the sender had stopped for a stale heartbeat, started
\* again after a new one, and is now withheld again.
C35_Witness ==
    /\ ~run /\ tickLog = "stale" /\ hbRxAt # None /\ now - hbRxAt > HbTimeout
    /\ Len(tx_times) >= 2 /\ tx_times[2] - tx_times[1] > SendPeriod
    /\ hbRxAt > tx_times[1] /\ hbRxAt <= tx_times[2]

\* ------------------------------------------------------------ broadcaster claims

\* C37: the broadcaster begins a tick only when no send of the tick before is
\* unfinished: every client of that tick was sent the snapshot or failed; while
\* a send is unfinished the next tick cannot begin, and the tick's snapshot
\* goes only to clients whose send was unfinished.
C37_TickWaitsForGather ==
    /\ [][tickNo' # tickNo =>
            (bc = "sleep" /\ pending = {} /\ tickStart \subseteq (tickSent \cup tickFailed))]_vars
    /\ [](pending # {} => (bc = "gather" /\ ~ENABLED BroadcastTick))
    /\ [][\A k \in Conns : (k \in tickSent' /\ k \notin tickSent) => k \in pending]_vars

\* In the first tick one client has been sent the snapshot and the send to
\* the other is unfinished: the broadcaster waits in the gather.
C37_Witness ==
    \E j, k \in Conns :
        /\ j # k /\ tickNo = 1 /\ bc = "gather"
        /\ tickStart = {j, k} /\ tickSent = {k} /\ pending = {j} /\ tickFailed = {}
        /\ ~ENABLED BroadcastTick

\* ------------------------------------------------------------ window claims

\* C38: tx_times never holds more than its maxlen of timestamps: an append to
\* a full window drops the oldest entry, the entries are in non-decreasing time
\* order, and tx_rate_hz never reports more than maxlen / 3 Hz, whether or not
\* a snapshot has pruned the window.
C38_WindowBounded ==
    /\ [](/\ Len(tx_times) <= TxMaxLen
          /\ \A i \in 1..(Len(tx_times) - 1) : tx_times[i] <= tx_times[i + 1]
          /\ rate.impl # "none" =>
                 (rate.value <= RoundDiv(100 * TxMaxLen, TxWindowSec)
                      /\ Len(rate.seen) <= TxMaxLen))
    /\ [][(nSent' # nSent /\ Len(tx_times) = TxMaxLen) =>
              tx_times' = Append(Tail(tx_times), now)]_vars

\* More lines were written than the window holds: its oldest entries were
\* dropped by append, no snapshot has pruned it.
C38_Witness ==
    /\ nSent > TxMaxLen /\ Len(tx_times) = TxMaxLen /\ rate.impl = "none"
    /\ tx_times[1] = (nSent - TxMaxLen + 1) * SendPeriod /\ tx_times[TxMaxLen] = last_tx_time

\* ------------------------------------------------------------ combo state claims

\* C39: for each combo the fired flag is set only while the timer is set, and
\* the mode flag flips only in a poll that takes fired from false to true.
C39_FiredNeedsTimer ==
    /\ [](\A k \in Combos : combo_fired[k] => combo_t0[k] # None)
    /\ [][\A k \in Combos :
            (FlagOf(k)' # FlagOf(k)) =>
                (nextPoll' # nextPoll /\ ~combo_fired[k] /\ combo_fired'[k]
                     /\ combo_t0'[k] = combo_t0[k] /\ combo_t0[k] # None)]_vars

\* Both combos have fired in holds that are still going on.
C39_Witness ==
    /\ \A k \in Combos : combo_fired[k] /\ combo_t0[k] # None /\ physFlips[k] = 1
    /\ combo_t0["sleep"] < combo_t0["speed"] /\ speed_plus

====
